---- MODULE Spec2Model ----
(***************************************************************************)
(* Model of securitiesanalysis/concurrent.py: FunctionWrapper (one unit of *)
(* work run in a single-worker process pool, with an optional timeout and  *)
(* default return value), _func (the task body run by a batch pool worker) *)
(* and Pool (the batch executor built on multiprocessing.pool.Pool.map).   *)
(*                                                                         *)
(* Python values are modelled as strings: "None" is None, "0", "", "False" *)
(* and "[]" are the falsy values 0, '', False and [], every other string   *)
(* is a truthy value.                                                      *)
(*                                                                         *)
(* Spec is one batch, Pool(wrapper_tuples, pool_size) followed by          *)
(* Pool.execute(); SpecHandle is one FunctionWrapper used directly, on     *)
(* which execute() may be called again after it returned.  The caller of   *)
(* execute(), the worker process that runs the wrapped function and the    *)
(* clock are separate processes; execute() is split at the points where it *)
(* reads what the other two change.  The property setters of both classes  *)
(* are plain assignments that nothing in the package calls; they are not   *)
(* part of the model.                                                      *)
(*                                                                         *)
(* SpecLife is the life of the pools and of their worker processes         *)
(* (NonDaemonicProcess): batches that may hold a wrapper tuple on which    *)
(* _func raises, repeated calls of execute(), assignments to the daemon    *)
(* attribute of the workers.  FairLife adds the scheduling assumption.     *)
(*                                                                         *)
(* SpecChunk is a batch of up to MaxBatch wrapper tuples, long enough for  *)
(* Pool.map to hand several wrapper tuples to one worker as one chunk.     *)
(* SpecIso is a batch that may hold work that never returns, with or       *)
(* without a timeout; FairIso adds that every process that can take a step *)
(* takes one.                                                              *)
(*                                                                         *)
(* SpecScrape is securitiesanalysis/regex_webscraper.py: one               *)
(* RegexWebScraper and the calls of scrape() on it, against a source that  *)
(* answers each GET with a page, a read timeout, a connection error or any *)
(* other error.  The retries of __scrape_retry are recursive calls; the    *)
(* depth of the call stack is part of the state.                           *)
(***************************************************************************)
EXTENDS Integers, Sequences, FiniteSets, TLC

\* ------------------------------------------------------------------ bounds
MaxTasks == 2
MaxPool == 2
MaxCalls == 2
MaxBatch == 5
MaxPatterns == 2
MaxRetries == 5

\* ------------------------------------------------------------------ values
None == "None"

Falsy == {None, "0", "", "False", "[]"}

\* Python truth value testing, as used by "if self.__timeout:" and
\* "if self.__default_return:".
Truthy(v) == v \notin Falsy

\* What a wrapped function does when it is run: return a value, raise, or
\* never complete.
Returns(v) == [kind |-> "return", value |-> v]
Raises == [kind |-> "raise", value |-> None]
Hangs == [kind |-> "hang", value |-> None]

Handles == {Returns(None), Returns("X"), Returns("Y"), Raises, Hangs}
Timeouts == {None, "0", "1"}
DefaultReturns == {None, "0", "", "False", "[]", "X"}

\* A wrapper tuple (handle, name, timeout, default_value, args, kwargs); the
\* name and the arguments do not influence the control flow and are left out.
WrapperTuple(h, t, d) ==
    [handle |-> h, timeout |-> t, default_return |-> d, args |-> "()"]

\* A wrapper tuple whose args entry is None instead of a tuple.
Malformed == [WrapperTuple(Returns("X"), None, None) EXCEPT !.args = None]

\* The wrapper tuples a FunctionWrapper is constructed from directly.
HandleSpecs == {WrapperTuple(h, t, d) : h \in Handles, t \in Timeouts, d \in DefaultReturns}

\* The wrapper tuples the batches are drawn from.
TaskSpecs ==
    { WrapperTuple(Returns("X"), None, None),
      WrapperTuple(Raises, None, None),
      WrapperTuple(Hangs, "1", "X"),
      WrapperTuple(Returns("Y"), "1", "0") }

RECURSIVE SeqsUpTo(_, _)
SeqsUpTo(S, n) ==
    IF n = 0 THEN {<<>>}
    ELSE LET shorter == SeqsUpTo(S, n - 1)
         IN shorter \cup {Append(s, x) : s \in {t \in shorter : Len(t) = n - 1}, x \in S}

\* A Python attribute holding None or a sequence.
NoneList == [none |-> TRUE, items |-> <<>>]
ListOf(s) == [none |-> FALSE, items |-> s]

VARIABLES
    wrapper_tuples,  \* Pool.__wrapper_tuples
    pool_size,       \* Pool.__pool_size
    return_values,   \* Pool.__return_values
    errors,          \* Pool.__errors
    batch_pool,      \* state of Pool.__pool: "RUN", "CLOSE" or "TERMINATE"
    ppc,             \* position of the caller in Pool.execute
    map_value,       \* the result slots of the running Pool.map call
    return_tuples,   \* the local return_tuples of Pool.execute
    completed,       \* task indices in the order their _func call returned
    workers,         \* the worker processes of Pool.__pool
    pool_hist,       \* history of the calls made on the Pool
    w,               \* w[i]: the FunctionWrapper of task i
    proc,            \* proc[i]: the worker process and clock of wrapper i
    hist,            \* hist[i]: history of the calls made on wrapper i
    scraper          \* the RegexWebScraper and the scrape() call made on it

poolVars == <<wrapper_tuples, pool_size, return_values, errors, batch_pool, ppc,
              map_value, return_tuples, completed, workers, pool_hist>>
vars == <<wrapper_tuples, pool_size, return_values, errors, batch_pool, ppc,
          map_value, return_tuples, completed, workers, pool_hist, w, proc, hist,
          scraper>>

Tasks == DOMAIN w

\* FunctionWrapper.__init__: the fields set by the constructor, plus the
\* position of the caller in execute (pc), the locals async_result and the
\* exception being handled (exc).
NewWrapper(t) ==
    [ handle |-> t.handle, timeout |-> t.timeout, default_return |-> t.default_return,
      pool |-> "RUN", return_value |-> None, error |-> None, done |-> FALSE,
      pc |-> "new", async_result |-> "none", exc |-> None ]

\* NonDaemonicProcess, lines 44-47: the daemon property always reads False.
DaemonGet(p) == FALSE

\* Mutant of DaemonSet: the assignment is stored, as the setter of
\* multiprocessing.Process does.
DaemonSet_Stored(p, value) == [p EXCEPT !.daemon = value]

\* NonDaemonicProcess, lines 49-51: the setter is `pass`, so the flag
\* multiprocessing keeps for the process (p.daemon; a daemonic process may
\* not start children) stays as it was.
DaemonSet(p, value) == p

\* NonDaemonicPool(processes=1, maxtasksperchild=1): one live worker that
\* has run no task; no limit computed yet.  The pool assigns daemon = True
\* to every worker it creates.
NewProc == DaemonSet([work |-> "idle", workers |-> 1, served |-> 0, limit |-> FALSE,
                      elapsed |-> FALSE, late |-> FALSE, daemon |-> FALSE], TRUE)

\* NonDaemonicPool(processes=pool_size, maxtasksperchild=1), lines 324-325:
\* pool_size live workers, each assigned daemon = True at creation.
NewWorkers(size) == DaemonSet([live |-> size, daemon |-> FALSE], TRUE)

NewPoolHist == [calls |-> 0, returns |-> 0, closes |-> 0, joins |-> 0]

NewHist == [calls |-> 0, doneSets |-> 0, joins |-> 0, timedOut |-> FALSE]

\* A wrapper tuple of the batch whose _func call has not started.
Unborn(t) == [NewWrapper(t) EXCEPT !.pc = "unborn"]
NoProc == [NewProc EXCEPT !.workers = 0]

Ready(i) == w[i].async_result \in {"value", "exc"}

\* ------------------------------------------------- FunctionWrapper.execute
\* A direct caller of the wrapper calls execute() (line 132); the call is
\* synchronous, so a further call starts only after the previous returned.
Execute(i) ==
    /\ ppc = "none"
    /\ w[i].pc \in {"new", "returned"}
    /\ hist[i].calls < MaxCalls
    /\ w' = [w EXCEPT ![i].pc = "L144", ![i].async_result = "none", ![i].exc = None]
    /\ hist' = [hist EXCEPT ![i].calls = @ + 1, ![i].doneSets = 0, ![i].joins = 0]
    /\ UNCHANGED <<proc, poolVars, scraper>>

\* Lines 144-146, "if self.__timeout:": the branch is chosen by truthiness;
\* with a timeout, limit = now + timeout and the clock of this call starts.
L144(i) ==
    /\ w[i].pc = "L144"
    /\ w' = [w EXCEPT ![i].pc = IF Truthy(w[i].timeout) THEN "L148" ELSE "L167"]
    /\ proc' = IF Truthy(w[i].timeout)
               THEN [proc EXCEPT ![i].limit = TRUE, ![i].elapsed = FALSE]
               ELSE proc
    /\ UNCHANGED <<hist, poolVars, scraper>>

\* pool.apply_async(handle, args, kwargs): raises ValueError unless the pool
\* is running; otherwise the idle worker starts the work.
ApplyAsync(i, next) ==
    IF w[i].pool # "RUN"
    THEN /\ w' = [w EXCEPT ![i].pc = "L178", ![i].exc = "ValueError('Pool not running')"]
         /\ UNCHANGED proc
    ELSE /\ w' = [w EXCEPT ![i].pc = next, ![i].async_result = "pending"]
         /\ proc' = [proc EXCEPT ![i].work = "running"]

L148(i) ==
    /\ w[i].pc = "L148"
    /\ ApplyAsync(i, "L150")
    /\ UNCHANGED <<hist, poolVars, scraper>>

L167(i) ==
    /\ w[i].pc = "L167"
    /\ ApplyAsync(i, "L169")
    /\ UNCHANGED <<hist, poolVars, scraper>>

\* Mutant of Close: the pool is left accepting submissions.
Close_Skipped(i, next) ==
    /\ w' = [w EXCEPT ![i].pc = next]
    /\ UNCHANGED proc

\* pool.close(): a running pool stops accepting submissions.
Close(i, next) ==
    /\ w' = [w EXCEPT ![i].pc = next,
                      ![i].pool = IF @ = "RUN" THEN "CLOSE" ELSE @]
    /\ UNCHANGED proc

L150(i) ==
    /\ w[i].pc = "L150"
    /\ Close(i, "L152")
    /\ UNCHANGED <<hist, poolVars, scraper>>

L169(i) ==
    /\ w[i].pc = "L169"
    /\ Close(i, "L171")
    /\ UNCHANGED <<hist, poolVars, scraper>>

\* Lines 152-154: poll until the result is ready or the limit has passed
\* (an iteration that sleeps changes nothing).
L152(i) ==
    /\ w[i].pc = "L152"
    /\ Ready(i) \/ proc[i].elapsed
    /\ w' = [w EXCEPT ![i].pc = "L155"]
    /\ UNCHANGED <<proc, hist, poolVars, scraper>>

\* self.__return_value = async_result.get(): get() re-raises what the work
\* raised, and the assignment does not happen.
Get(i, next) ==
    /\ w' = IF w[i].async_result = "exc"
            THEN [w EXCEPT ![i].pc = "L178", ![i].exc = "WorkError"]
            ELSE [w EXCEPT ![i].pc = next, ![i].return_value = w[i].handle.value]
    /\ UNCHANGED proc

\* Lines 155-157, "if async_result.ready():" read again after the loop; a
\* ready result is fetched.
L155(i) ==
    /\ w[i].pc = "L155"
    /\ IF Ready(i)
       THEN Get(i, "L163")
       ELSE w' = [w EXCEPT ![i].pc = "L159"] /\ UNCHANGED proc
    /\ UNCHANGED <<hist, poolVars, scraper>>

\* pool.terminate(): the pool stops and its workers are killed, whatever
\* they are doing.
Terminate(i) ==
    [proc EXCEPT ![i].workers = 0,
                 ![i].work = IF @ = "running" THEN "killed" ELSE @]

\* Lines 160-162, "if self.__default_return:": the default is adopted by
\* truthiness.
AdoptDefault(i) ==
    IF Truthy(w[i].default_return) THEN w[i].default_return ELSE w[i].return_value

\* Lines 159-162: the limit passed with no result ready.
L159(i) ==
    /\ w[i].pc = "L159"
    /\ proc' = Terminate(i)
    /\ w' = [w EXCEPT ![i].pc = "L163", ![i].pool = "TERMINATE",
                      ![i].return_value = AdoptDefault(i)]
    /\ hist' = [hist EXCEPT ![i].timedOut = TRUE]
    /\ UNCHANGED <<poolVars, scraper>>

\* Mutant of JoinDone: the done flag is set without waiting for the workers.
JoinDone_NoJoin(i) ==
    /\ w' = [w EXCEPT ![i].pc = "returned", ![i].done = TRUE]
    /\ hist' = [hist EXCEPT ![i].doneSets = @ + 1]

\* pool.join() followed by self.__done = True.  join() raises ValueError on
\* a pool that is still running, otherwise blocks until every worker of the
\* pool has exited.
JoinDone(i) ==
    IF w[i].pool = "RUN"
    THEN /\ w' = [w EXCEPT ![i].pc = "L178", ![i].exc = "ValueError('Pool is still running')"]
         /\ UNCHANGED hist
    ELSE /\ proc[i].workers = 0
         /\ w' = [w EXCEPT ![i].pc = "returned", ![i].done = TRUE]
         /\ hist' = [hist EXCEPT ![i].joins = @ + 1, ![i].doneSets = @ + 1]

\* Lines 163-164.
L163(i) ==
    /\ w[i].pc = "L163"
    /\ JoinDone(i)
    /\ UNCHANGED <<proc, poolVars, scraper>>

\* Lines 171-174: poll until the result is ready, without limit, then fetch
\* it.
L171(i) ==
    /\ w[i].pc = "L171"
    /\ Ready(i)
    /\ Get(i, "L175")
    /\ UNCHANGED <<hist, poolVars, scraper>>

\* Lines 175-176.
L175(i) ==
    /\ w[i].pc = "L175"
    /\ JoinDone(i)
    /\ UNCHANGED <<proc, poolVars, scraper>>

\* Mutant of L178: the except clause also adopts the default return value.
L178_DefaultOnError(i) ==
    /\ w[i].pc = "L178"
    /\ proc' = Terminate(i)
    /\ w' = [w EXCEPT ![i].pc = "L181", ![i].pool = "TERMINATE",
                      ![i].return_value = AdoptDefault(i),
                      ![i].error = w[i].exc, ![i].exc = None]
    /\ UNCHANGED <<hist, poolVars, scraper>>

\* Mutant of L178: the except clause drops the exception.
L178_NoError(i) ==
    /\ w[i].pc = "L178"
    /\ proc' = Terminate(i)
    /\ w' = [w EXCEPT ![i].pc = "L181", ![i].pool = "TERMINATE", ![i].exc = None]
    /\ UNCHANGED <<hist, poolVars, scraper>>

\* Lines 177-180, the bare except clause: terminate the pool and store
\* str(sys.exc_info()) in error.
L178(i) ==
    /\ w[i].pc = "L178"
    /\ proc' = Terminate(i)
    /\ w' = [w EXCEPT ![i].pc = "L181", ![i].pool = "TERMINATE",
                      ![i].error = w[i].exc, ![i].exc = None]
    /\ UNCHANGED <<hist, poolVars, scraper>>

\* Lines 181-182.
L181(i) ==
    /\ w[i].pc = "L181"
    /\ JoinDone(i)
    /\ UNCHANGED <<proc, poolVars, scraper>>

\* --------------------------------------- the worker process of a wrapper
\* The wrapped function finishes in the worker: the result (a value or the
\* exception) becomes ready.  late records that it finished after the limit.
WorkComplete(i) ==
    /\ proc[i].work = "running"
    /\ w[i].handle.kind # "hang"
    /\ proc' = [proc EXCEPT ![i].work = IF w[i].handle.kind = "raise" THEN "raised" ELSE "returned",
                            ![i].served = 1,
                            ![i].late = proc[i].limit /\ proc[i].elapsed]
    /\ w' = [w EXCEPT ![i].async_result = IF w[i].handle.kind = "raise" THEN "exc" ELSE "value"]
    /\ UNCHANGED <<hist, poolVars, scraper>>

\* Mutant of WorkerExit: a worker exits only after it has run a task, so a
\* replacement worker that never gets one keeps running in a closed pool.
WorkerExit_OnlyAfterTask(i) ==
    /\ w[i].pc # "unborn"
    /\ proc[i].workers = 1
    /\ proc[i].work # "running"
    /\ proc[i].served = 1
    /\ proc' = [proc EXCEPT ![i].workers = 0]
    /\ UNCHANGED <<w, hist, poolVars, scraper>>

\* A worker exits after its one task (maxtasksperchild=1), or when the pool
\* was closed and it has nothing to run.
WorkerExit(i) ==
    /\ w[i].pc # "unborn"
    /\ proc[i].workers = 1
    /\ proc[i].work # "running"
    /\ proc[i].served = 1 \/ w[i].pool = "CLOSE"
    /\ proc' = [proc EXCEPT ![i].workers = 0]
    /\ UNCHANGED <<w, hist, poolVars, scraper>>

\* A running pool replaces a worker that exited.
Repopulate(i) ==
    /\ w[i].pc # "unborn"
    /\ w[i].pool = "RUN"
    /\ proc[i].workers = 0
    /\ proc' = [proc EXCEPT ![i] = DaemonSet([@ EXCEPT !.workers = 1, !.served = 0,
                                                       !.daemon = FALSE], TRUE)]
    /\ UNCHANGED <<w, hist, poolVars, scraper>>

\* datetime.now() reaches the limit of the call in progress.
Tick(i) ==
    /\ w[i].pc \in {"L148", "L150", "L152"}
    /\ proc[i].limit
    /\ ~proc[i].elapsed
    /\ proc' = [proc EXCEPT ![i].elapsed = TRUE]
    /\ UNCHANGED <<w, hist, poolVars, scraper>>

\* ------------------------------------------------------------------ _func
Unset == [set |-> FALSE, failed |-> FALSE, value |-> <<None, None>>]

InFlight == {j \in Tasks : w[j].pc # "unborn" /\ ~map_value[j].set}

\* Line 338: pool.map(func, iterable) without a chunksize cuts the iterable
\* into chunks of ceil(len(iterable) / (4 * processes)) items and submits
\* each chunk to the pool as one task.
ChunkSize ==
    LET n == Len(wrapper_tuples)
    IN  IF n % (4 * pool_size) = 0 THEN n \div (4 * pool_size)
        ELSE n \div (4 * pool_size) + 1

Chunk(i) == (i - 1) \div ChunkSize + 1

\* The chunks a worker of the batch pool is working on.
BusyChunks ==
    {Chunk(j) : j \in {k \in Tasks : w[k].pc # "unborn"}}
        \ {c \in 1..Len(wrapper_tuples) :
               \A j \in Tasks : Chunk(j) = c => map_value[j].set}

\* Mutant of MayStart: a chunk is started as soon as it is submitted,
\* whether or not a worker of the pool is free.
MayStart_Unbounded(i) ==
    /\ \A j \in Tasks : j < i => w[j].pc # "unborn"
    /\ (i > 1 /\ Chunk(i - 1) = Chunk(i)) => map_value[i - 1].set

\* A free worker of the batch pool may take the chunk that starts with
\* wrapper tuple i (chunks are taken in submission order, by at most
\* pool_size workers at a time); within a chunk the worker calls _func on
\* the wrapper tuples one after the other.
MayStart(i) ==
    /\ \A j \in Tasks : j < i => w[j].pc # "unborn"
    /\ IF i > 1 /\ Chunk(i - 1) = Chunk(i)
       THEN map_value[i - 1].set
       ELSE Cardinality(BusyChunks) < pool_size

Failed == [set |-> TRUE, failed |-> TRUE, value |-> <<None, None>>]

\* Lines 275-284: a worker of the batch pool calls _func on wrapper tuple
\* i, which constructs the FunctionWrapper and calls execute().
\* Line 283 raises when args is not iterable (TypeError), and when the
\* worker is daemonic (the constructor's NonDaemonicPool cannot start its
\* worker: AssertionError); the exception ends the worker's chunk, whose
\* remaining wrapper tuples are not run, and the pool records the failure.
FuncStart(i) ==
    /\ ppc = "L338"
    /\ w[i].pc = "unborn"
    /\ MayStart(i)
    /\ IF wrapper_tuples[i].args = None \/ workers.daemon
       THEN /\ w' = [j \in Tasks |->
                        IF j >= i /\ Chunk(j) = Chunk(i)
                        THEN [w[j] EXCEPT !.pc = "failed", !.pool = "none"]
                        ELSE w[j]]
            /\ map_value' = [j \in Tasks |->
                        IF j >= i /\ Chunk(j) = Chunk(i) THEN Failed ELSE map_value[j]]
            /\ completed' = Append(completed, i)
            /\ UNCHANGED <<proc, hist>>
       ELSE /\ w' = [w EXCEPT ![i] = [NewWrapper(wrapper_tuples[i]) EXCEPT !.pc = "L144"]]
            /\ proc' = [proc EXCEPT ![i] = NewProc]
            /\ hist' = [hist EXCEPT ![i].calls = 1]
            /\ UNCHANGED <<map_value, completed>>
    /\ UNCHANGED <<wrapper_tuples, pool_size, return_values, errors, batch_pool, ppc,
                   return_tuples, workers, pool_hist, scraper>>

\* Mutant of FuncReturn: the error is read from state shared by the wrappers
\* of the batch, so an error raised by one task shows in its siblings' slots.
FuncReturn_SharedError(i) ==
    /\ ppc = "L338"
    /\ w[i].pc = "returned"
    /\ w[i].done
    /\ ~map_value[i].set
    /\ map_value' = [map_value EXCEPT ![i] =
            [set |-> TRUE, failed |-> FALSE,
             value |-> <<w[i].return_value,
                         IF \E k \in Tasks : w[k].error # None
                         THEN w[CHOOSE k \in Tasks : w[k].error # None].error
                         ELSE None>>]]
    /\ completed' = Append(completed, i)
    /\ UNCHANGED <<wrapper_tuples, pool_size, return_values, errors, batch_pool, ppc,
                   return_tuples, workers, pool_hist, w, proc, hist, scraper>>

\* Lines 286-288: wait for the done flag, then return (return_value, error)
\* into the slot of the map result that belongs to this wrapper tuple.
FuncReturn(i) ==
    /\ ppc = "L338"
    /\ w[i].pc = "returned"
    /\ w[i].done
    /\ ~map_value[i].set
    /\ map_value' = [map_value EXCEPT ![i] =
            [set |-> TRUE, failed |-> FALSE,
             value |-> <<w[i].return_value, w[i].error>>]]
    /\ completed' = Append(completed, i)
    /\ UNCHANGED <<wrapper_tuples, pool_size, return_values, errors, batch_pool, ppc,
                   return_tuples, workers, pool_hist, w, proc, hist, scraper>>

\* ------------------------------------------------------------ Pool.execute
\* Mutant of MapResult: the results in the order the tasks completed.
MapResult_CompletionOrder ==
    [k \in 1..Len(wrapper_tuples) |-> map_value[completed[k]].value]

\* The list pool.map returns: the slots in submission order.
MapResult == [k \in 1..Len(wrapper_tuples) |-> map_value[k].value]

\* Mutant of L338: a pool that is no longer running is reopened for the
\* batch.
L338_Reopen ==
    /\ ppc \in {"new", "returned", "raised"}
    /\ pool_hist.calls < MaxCalls
    /\ pool_hist' = [pool_hist EXCEPT !.calls = @ + 1]
    /\ ppc' = "L338"
    /\ batch_pool' = "RUN"
    /\ map_value' = [i \in Tasks |-> Unset]
    /\ completed' = <<>>
    /\ w' = [i \in Tasks |-> Unborn(wrapper_tuples[i])]
    /\ proc' = [i \in Tasks |-> NoProc]
    /\ hist' = [i \in Tasks |-> NewHist]
    /\ UNCHANGED <<wrapper_tuples, pool_size, return_values, errors,
                   return_tuples, workers, scraper>>

\* Line 338: the caller calls execute() (a further call only after the
\* previous one returned or raised) and pool.map(_func, wrapper_tuples)
\* submits every wrapper tuple.  On a pool that is not running map raises
\* ValueError at once; on a running pool every wrapper tuple is submitted,
\* also when an earlier call had submitted them before.
L338 ==
    /\ ppc \in {"new", "returned", "raised"}
    /\ pool_hist.calls < MaxCalls
    /\ pool_hist' = [pool_hist EXCEPT !.calls = @ + 1]
    /\ IF batch_pool = "RUN"
       THEN /\ ppc' = "L338"
            /\ map_value' = [i \in Tasks |-> Unset]
            /\ completed' = <<>>
            /\ w' = [i \in Tasks |-> Unborn(wrapper_tuples[i])]
            /\ proc' = [i \in Tasks |-> NoProc]
            /\ hist' = [i \in Tasks |-> NewHist]
       ELSE /\ ppc' = "raised"
            /\ UNCHANGED <<map_value, completed, w, proc, hist>>
    /\ UNCHANGED <<wrapper_tuples, pool_size, return_values, errors, batch_pool,
                   return_tuples, workers, scraper>>

\* Line 338: pool.map returns once every slot is filled; if a task failed
\* it raises that task's exception instead, and execute() ends there.
MapReturn ==
    /\ ppc = "L338"
    /\ \A i \in Tasks : map_value[i].set
    /\ IF \E i \in Tasks : map_value[i].failed
       THEN /\ ppc' = "raised"
            /\ UNCHANGED return_tuples
       ELSE /\ return_tuples' = MapResult
            /\ ppc' = "L339"
    /\ UNCHANGED <<wrapper_tuples, pool_size, return_values, errors, batch_pool,
                   map_value, completed, workers, pool_hist, w, proc, hist, scraper>>

\* Line 339: self.__pool.close().
L339 ==
    /\ ppc = "L339"
    /\ batch_pool' = "CLOSE"
    /\ pool_hist' = [pool_hist EXCEPT !.closes = @ + 1]
    /\ ppc' = "L340"
    /\ UNCHANGED <<wrapper_tuples, pool_size, return_values, errors, workers,
                   map_value, return_tuples, completed, w, proc, hist, scraper>>

\* Line 340: self.__pool.join() returns when every worker of the closed
\* pool has exited.
L340 ==
    /\ ppc = "L340"
    /\ workers' = [workers EXCEPT !.live = 0]
    /\ pool_hist' = [pool_hist EXCEPT !.joins = @ + 1]
    /\ ppc' = "L342"
    /\ UNCHANGED <<wrapper_tuples, pool_size, return_values, errors, batch_pool,
                   map_value, return_tuples, completed, w, proc, hist, scraper>>

\* Line 342: self.__return_values, self.__errors = zip(*return_tuples).
\* zip() of no arguments yields nothing, so unpacking into two names raises
\* ValueError and neither attribute is assigned.
L342 ==
    /\ ppc = "L342"
    /\ IF Len(return_tuples) = 0
       THEN /\ ppc' = "raised"
            /\ UNCHANGED <<return_values, errors, pool_hist>>
       ELSE /\ ppc' = "returned"
            /\ return_values' = ListOf([k \in 1..Len(return_tuples) |-> return_tuples[k][1]])
            /\ errors' = ListOf([k \in 1..Len(return_tuples) |-> return_tuples[k][2]])
            /\ pool_hist' = [pool_hist EXCEPT !.returns = @ + 1]
    /\ UNCHANGED <<wrapper_tuples, pool_size, batch_pool, workers,
                   map_value, return_tuples, completed, w, proc, hist, scraper>>

\* ------------------------------------------------------ NonDaemonicProcess
\* worker.daemon = value, by any code that holds the process object of the
\* worker of wrapper i.
AssignDaemon(i) ==
    /\ w[i].pc \notin {"unborn", "failed"}
    /\ \E value \in BOOLEAN : proc' = [proc EXCEPT ![i] = DaemonSet(@, value)]
    /\ UNCHANGED <<w, hist, poolVars, scraper>>

\* The same for the workers of the batch pool.
AssignBatchDaemon ==
    /\ ppc # "none"
    /\ \E value \in BOOLEAN : workers' = DaemonSet(workers, value)
    /\ UNCHANGED <<wrapper_tuples, pool_size, return_values, errors, batch_pool, ppc,
                   map_value, return_tuples, completed, pool_hist, w, proc, hist,
                   scraper>>

\* -------------------------------------------------------- RegexWebScraper
\* regex_webscraper.py.  A pattern is named by the text it matches; a page
\* is the set of patterns that match somewhere in it.
Patterns == {"a", "b"}
Pages == SUBSET Patterns

\* groups: None, the empty tuple, a group every pattern has, and a group no
\* pattern has.
Groups == {None, "[]", "1", "9"}

\* The depth of the Python call stack at which the interpreter raises
\* RecursionError instead of entering one more call.
RecursionLimit == 4

concurrentVars == <<poolVars, w, proc, hist>>

\* Lines 45-84: the constructor stores its arguments without validation.
\* pc, depth, retry_count, contents, result, exc and log are the state of
\* the scrape() call in progress; log is what the call did so far.
NewScraper(pattern_list, findall, groups, max_retries) ==
    [ pattern_list |-> pattern_list, findall |-> findall, groups |-> groups,
      max_retries |-> max_retries,
      pc |-> "idle", depth |-> 0, retry_count |-> 0, contents |-> {},
      result |-> NoneList, exc |-> None, log |-> <<>>, calls |-> 0 ]

\* No scraper in use.
NoScraper == NewScraper(<<>>, FALSE, None, 0)

NoneRow(n) == [k \in 1..n |-> None]

\* Line 139: re.findall returns the list of matches, empty when none.
FindAll(p, contents) == IF p \in contents THEN "[" \o p \o "]" ELSE "[]"

\* Mutant of Matches: in first-match mode a pattern that does not match
\* yields None for its own entry only.
Matches_PerPattern(pattern_list, findall, groups, contents) ==
    LET n == Len(pattern_list)
    IN  IF findall
        THEN [k \in 1..n |-> FindAll(pattern_list[k], contents)]
        ELSE [k \in 1..n |-> IF pattern_list[k] \in contents
                             THEN pattern_list[k] ELSE None]

\* Lines 135-151: one entry per pattern; any exception raised while the
\* list is built (search() returned None, no such group) replaces the whole
\* list by one None per pattern.
Matches(pattern_list, findall, groups, contents) ==
    LET n == Len(pattern_list)
    IN  IF findall
        THEN [k \in 1..n |-> FindAll(pattern_list[k], contents)]
        ELSE IF \E k \in 1..n : pattern_list[k] \notin contents
             THEN NoneRow(n)
             ELSE IF Truthy(groups)
                  THEN IF groups = "9" /\ n > 0
                       THEN NoneRow(n)
                       ELSE [k \in 1..n |-> pattern_list[k] \o "." \o groups]
                  ELSE [k \in 1..n |-> pattern_list[k]]

\* Mutant of scrape: the counter of the previous call is carried over.
scrape_KeepCounter ==
    /\ scraper.pc \in {"idle", "returned", "raised"}
    /\ scraper.calls < MaxCalls
    /\ scraper' = [scraper EXCEPT !.pc = "L133", !.depth = 1,
                                  !.contents = {}, !.result = NoneList,
                                  !.exc = None, !.log = <<>>, !.calls = @ + 1]
    /\ UNCHANGED concurrentVars

\* Line 104: scrape(url) calls __scrape_retry(url, 0).
scrape ==
    /\ scraper.pc \in {"idle", "returned", "raised"}
    /\ scraper.calls < MaxCalls
    /\ scraper' = [scraper EXCEPT !.pc = "L133", !.depth = 1, !.retry_count = 0,
                                  !.contents = {}, !.result = NoneList,
                                  !.exc = None, !.log = <<>>, !.calls = @ + 1]
    /\ UNCHANGED concurrentVars

\* Lines 133-134: requests.get(...).text returns the page, or raises
\* ReadTimeout ("T"), ConnectionError ("C") or anything else ("G").  With the
\* call stack at its limit the call itself raises RecursionError ("R"),
\* which the bare except of line 158 handles.
requests_get ==
    /\ scraper.pc = "L133"
    /\ IF scraper.depth >= RecursionLimit
       THEN scraper' = [scraper EXCEPT !.pc = "L158", !.log = Append(@, "R")]
       ELSE \/ \E page \in Pages :
                 scraper' = [scraper EXCEPT !.pc = "L135", !.contents = page,
                                            !.log = Append(@, "ok")]
            \/ scraper' = [scraper EXCEPT !.pc = "L152", !.log = Append(@, "T")]
            \/ scraper' = [scraper EXCEPT !.pc = "L155", !.log = Append(@, "C")]
            \/ scraper' = [scraper EXCEPT !.pc = "L158", !.log = Append(@, "G")]
    /\ UNCHANGED concurrentVars

\* Mutant of extract: a failed extraction is handled as a generic failure
\* of the fetch.
extract_RetryOnFailure ==
    /\ scraper.pc = "L135"
    /\ LET matches == Matches(scraper.pattern_list, scraper.findall,
                              scraper.groups, scraper.contents)
       IN  scraper' = IF matches # <<>> /\ \A k \in DOMAIN matches : matches[k] = None
                      THEN [scraper EXCEPT !.pc = "L158"]
                      ELSE [scraper EXCEPT !.pc = "returned", !.depth = 0,
                                           !.result = ListOf(matches)]
    /\ UNCHANGED concurrentVars

\* Lines 135-151 and 166: build matches and return them through every
\* frame of the recursion.
extract ==
    /\ scraper.pc = "L135"
    /\ scraper' = [scraper EXCEPT
            !.pc = "returned", !.depth = 0,
            !.result = ListOf(Matches(scraper.pattern_list, scraper.findall,
                                      scraper.groups, scraper.contents))]
    /\ UNCHANGED concurrentVars

\* Mutant of Retry: the recursive call is made without the wait.
Retry_NoWait(s) ==
    IF s.depth >= RecursionLimit
    THEN [s EXCEPT !.pc = "raised", !.depth = 0, !.exc = "RecursionError"]
    ELSE [s EXCEPT !.pc = "L133", !.depth = @ + 1]

\* time.sleep(delay_time), then return self.__scrape_retry(url, retry_count):
\* one more frame, or RecursionError when the stack is at its limit.  The
\* call is made inside an except clause, so the error leaves every frame and
\* scrape() raises it.
Retry(s) ==
    LET slept == [s EXCEPT !.log = Append(@, "sleep")]
    IN  IF s.depth >= RecursionLimit
        THEN [slept EXCEPT !.pc = "raised", !.depth = 0, !.exc = "RecursionError"]
        ELSE [slept EXCEPT !.pc = "L133", !.depth = @ + 1]

\* Mutant of except_ReadTimeout: the read timeout is counted as a retry.
except_ReadTimeout_Counted ==
    /\ scraper.pc = "L152"
    /\ scraper' = Retry([scraper EXCEPT !.retry_count = @ + 1])
    /\ UNCHANGED concurrentVars

\* Lines 152-154.
except_ReadTimeout ==
    /\ scraper.pc = "L152"
    /\ scraper' = Retry(scraper)
    /\ UNCHANGED concurrentVars

\* Lines 155-157.
except_ConnectionError ==
    /\ scraper.pc = "L155"
    /\ scraper' = Retry(scraper)
    /\ UNCHANGED concurrentVars

\* Mutant of except_generic: the list returned after the last retry is empty.
except_generic_EmptyList ==
    /\ scraper.pc = "L158"
    /\ LET counted == [scraper EXCEPT !.retry_count = @ + 1]
       IN  scraper' = IF counted.retry_count < counted.max_retries
                      THEN Retry(counted)
                      ELSE [counted EXCEPT !.pc = "returned", !.depth = 0,
                                           !.result = ListOf(<<>>)]
    /\ UNCHANGED concurrentVars

\* Lines 158-164: count the failure, then retry or give up.
except_generic ==
    /\ scraper.pc = "L158"
    /\ LET counted == [scraper EXCEPT !.retry_count = @ + 1]
       IN  scraper' = IF counted.retry_count < counted.max_retries
                      THEN Retry(counted)
                      ELSE [counted EXCEPT
                                !.pc = "returned", !.depth = 0,
                                !.result = ListOf(NoneRow(Len(counted.pattern_list)))]
    /\ UNCHANGED concurrentVars

\* --------------------------------------------------------- specifications
\* A batch: Pool(wrapper_tuples, pool_size) constructed, execute() called.
Init ==
    /\ wrapper_tuples \in SeqsUpTo(TaskSpecs, MaxTasks)
    /\ pool_size \in 1..MaxPool
    /\ return_values = NoneList
    /\ errors = NoneList
    /\ batch_pool = "RUN"
    /\ ppc = "new"
    /\ map_value = [i \in 1..Len(wrapper_tuples) |-> Unset]
    /\ return_tuples = <<>>
    /\ completed = <<>>
    /\ workers = NewWorkers(pool_size)
    /\ pool_hist = NewPoolHist
    /\ w = [i \in 1..Len(wrapper_tuples) |-> Unborn(wrapper_tuples[i])]
    /\ proc = [i \in 1..Len(wrapper_tuples) |-> NoProc]
    /\ hist = [i \in 1..Len(wrapper_tuples) |-> NewHist]
    /\ scraper = NoScraper

Next ==
    \/ L338
    \/ MapReturn
    \/ L339
    \/ L340
    \/ L342
    \/ \E i \in Tasks : FuncStart(i)
    \/ \E i \in Tasks : FuncReturn(i)
    \/ \E i \in Tasks : L144(i)
    \/ \E i \in Tasks : L148(i)
    \/ \E i \in Tasks : L150(i)
    \/ \E i \in Tasks : L152(i)
    \/ \E i \in Tasks : L155(i)
    \/ \E i \in Tasks : L159(i)
    \/ \E i \in Tasks : L163(i)
    \/ \E i \in Tasks : L167(i)
    \/ \E i \in Tasks : L169(i)
    \/ \E i \in Tasks : L171(i)
    \/ \E i \in Tasks : L175(i)
    \/ \E i \in Tasks : L178(i)
    \/ \E i \in Tasks : L181(i)
    \/ \E i \in Tasks : WorkComplete(i)
    \/ \E i \in Tasks : WorkerExit(i)
    \/ \E i \in Tasks : Repopulate(i)
    \/ \E i \in Tasks : Tick(i)

Spec == Init /\ [][Next]_vars

\* One FunctionWrapper constructed and used directly by a caller, which may
\* call execute() on it again after it returned.
InitHandle ==
    /\ wrapper_tuples \in {<<t>> : t \in HandleSpecs}
    /\ pool_size = 1
    /\ return_values = NoneList
    /\ errors = NoneList
    /\ batch_pool = "RUN"
    /\ ppc = "none"
    /\ map_value = <<Unset>>
    /\ return_tuples = <<>>
    /\ completed = <<>>
    /\ workers = NewWorkers(0)
    /\ pool_hist = NewPoolHist
    /\ w = [i \in {1} |-> NewWrapper(wrapper_tuples[i])]
    /\ proc = [i \in {1} |-> NewProc]
    /\ hist = [i \in {1} |-> NewHist]
    /\ scraper = NoScraper

NextHandle ==
    \/ \E i \in Tasks : Execute(i)
    \/ \E i \in Tasks : L144(i)
    \/ \E i \in Tasks : L148(i)
    \/ \E i \in Tasks : L150(i)
    \/ \E i \in Tasks : L152(i)
    \/ \E i \in Tasks : L155(i)
    \/ \E i \in Tasks : L159(i)
    \/ \E i \in Tasks : L163(i)
    \/ \E i \in Tasks : L167(i)
    \/ \E i \in Tasks : L169(i)
    \/ \E i \in Tasks : L171(i)
    \/ \E i \in Tasks : L175(i)
    \/ \E i \in Tasks : L178(i)
    \/ \E i \in Tasks : L181(i)
    \/ \E i \in Tasks : WorkComplete(i)
    \/ \E i \in Tasks : WorkerExit(i)
    \/ \E i \in Tasks : Repopulate(i)
    \/ \E i \in Tasks : Tick(i)

SpecHandle == InitHandle /\ [][NextHandle]_vars

\* The wrapper tuples the batches of SpecLife are drawn from.
LifeSpecs ==
    { WrapperTuple(Returns("X"), None, None),
      WrapperTuple(Raises, None, None),
      WrapperTuple(Hangs, "1", "X"),
      Malformed }

\* A Pool on which execute() may be called again after it returned or
\* raised, or one FunctionWrapper used directly; any code may assign the
\* daemon attribute of the worker processes.
InitLife ==
    \/ /\ wrapper_tuples \in SeqsUpTo(LifeSpecs, MaxTasks)
       /\ pool_size \in 1..MaxPool
       /\ return_values = NoneList
       /\ errors = NoneList
       /\ batch_pool = "RUN"
       /\ ppc = "new"
       /\ map_value = [i \in 1..Len(wrapper_tuples) |-> Unset]
       /\ return_tuples = <<>>
       /\ completed = <<>>
       /\ workers = NewWorkers(pool_size)
       /\ pool_hist = NewPoolHist
       /\ w = [i \in 1..Len(wrapper_tuples) |-> Unborn(wrapper_tuples[i])]
       /\ proc = [i \in 1..Len(wrapper_tuples) |-> NoProc]
       /\ hist = [i \in 1..Len(wrapper_tuples) |-> NewHist]
       /\ scraper = NoScraper
    \/ InitHandle

NextLife ==
    \/ L338
    \/ MapReturn
    \/ L339
    \/ L340
    \/ L342
    \/ AssignBatchDaemon
    \/ \E i \in Tasks : FuncStart(i)
    \/ \E i \in Tasks : FuncReturn(i)
    \/ \E i \in Tasks : Execute(i)
    \/ \E i \in Tasks : L144(i)
    \/ \E i \in Tasks : L148(i)
    \/ \E i \in Tasks : L150(i)
    \/ \E i \in Tasks : L152(i)
    \/ \E i \in Tasks : L155(i)
    \/ \E i \in Tasks : L159(i)
    \/ \E i \in Tasks : L163(i)
    \/ \E i \in Tasks : L167(i)
    \/ \E i \in Tasks : L169(i)
    \/ \E i \in Tasks : L171(i)
    \/ \E i \in Tasks : L175(i)
    \/ \E i \in Tasks : L178(i)
    \/ \E i \in Tasks : L181(i)
    \/ \E i \in Tasks : WorkComplete(i)
    \/ \E i \in Tasks : WorkerExit(i)
    \/ \E i \in Tasks : Repopulate(i)
    \/ \E i \in Tasks : Tick(i)
    \/ \E i \in Tasks : AssignDaemon(i)

SpecLife == InitLife /\ [][NextLife]_vars

\* The operating system runs every process that can take a step, and the
\* clock advances: no step of NextLife stays possible for ever untaken.
FairLife == SpecLife /\ WF_vars(NextLife)

\* The wrapper tuples the batches of SpecChunk are drawn from.
ChunkSpecs == {WrapperTuple(Returns("X"), None, None), Malformed}

\* Batches long enough for pool.map to put several wrapper tuples into one
\* chunk; the work of every task returns and no task has a timeout.
InitChunk ==
    /\ wrapper_tuples \in SeqsUpTo(ChunkSpecs, MaxBatch)
    /\ pool_size \in 1..MaxPool
    /\ return_values = NoneList
    /\ errors = NoneList
    /\ batch_pool = "RUN"
    /\ ppc = "new"
    /\ map_value = [i \in 1..Len(wrapper_tuples) |-> Unset]
    /\ return_tuples = <<>>
    /\ completed = <<>>
    /\ workers = NewWorkers(pool_size)
    /\ pool_hist = NewPoolHist
    /\ w = [i \in 1..Len(wrapper_tuples) |-> Unborn(wrapper_tuples[i])]
    /\ proc = [i \in 1..Len(wrapper_tuples) |-> NoProc]
    /\ hist = [i \in 1..Len(wrapper_tuples) |-> NewHist]
    /\ scraper = NoScraper

\* The steps of a batch whose tasks return without a timeout.
NextChunk ==
    \/ L338
    \/ MapReturn
    \/ L339
    \/ L340
    \/ L342
    \/ \E i \in Tasks : FuncStart(i)
    \/ \E i \in Tasks : FuncReturn(i)
    \/ \E i \in Tasks : L144(i)
    \/ \E i \in Tasks : L167(i)
    \/ \E i \in Tasks : L169(i)
    \/ \E i \in Tasks : L171(i)
    \/ \E i \in Tasks : L175(i)
    \/ \E i \in Tasks : WorkComplete(i)
    \/ \E i \in Tasks : WorkerExit(i)
    \/ \E i \in Tasks : Repopulate(i)

SpecChunk == InitChunk /\ [][NextChunk]_vars

\* Batches for the isolation of the tasks of one batch: work that returns,
\* work that raises, work that hangs with a limit and work that hangs without
\* one.
IsoSpecs ==
    { WrapperTuple(Returns("X"), None, None),
      WrapperTuple(Raises, None, None),
      WrapperTuple(Hangs, "1", "X"),
      WrapperTuple(Hangs, None, None) }

InitIso ==
    /\ wrapper_tuples \in SeqsUpTo(IsoSpecs, MaxTasks)
    /\ pool_size \in 1..MaxPool
    /\ return_values = NoneList
    /\ errors = NoneList
    /\ batch_pool = "RUN"
    /\ ppc = "new"
    /\ map_value = [i \in 1..Len(wrapper_tuples) |-> Unset]
    /\ return_tuples = <<>>
    /\ completed = <<>>
    /\ workers = NewWorkers(pool_size)
    /\ pool_hist = NewPoolHist
    /\ w = [i \in 1..Len(wrapper_tuples) |-> Unborn(wrapper_tuples[i])]
    /\ proc = [i \in 1..Len(wrapper_tuples) |-> NoProc]
    /\ hist = [i \in 1..Len(wrapper_tuples) |-> NewHist]
    /\ scraper = NoScraper

SpecIso == InitIso /\ [][Next]_vars

\* Every process that can take a step eventually takes one: the main process,
\* the batch workers and the workers of the wrappers are operating-system
\* processes, and no step of the model can be repeated without end.
FairIso == SpecIso /\ WF_vars(Next)

\* One RegexWebScraper, on which scrape() is called against a source whose
\* answer to each GET is any of the four outcomes.
InitScrape ==
    /\ scraper \in {NewScraper(pl, f, g, m) : pl \in SeqsUpTo(Patterns, MaxPatterns),
                                             f \in BOOLEAN, g \in Groups,
                                             m \in 0..MaxRetries}
    /\ wrapper_tuples = <<>>
    /\ pool_size = 1
    /\ return_values = NoneList
    /\ errors = NoneList
    /\ batch_pool = "RUN"
    /\ ppc = "none"
    /\ map_value = <<>>
    /\ return_tuples = <<>>
    /\ completed = <<>>
    /\ workers = NewWorkers(0)
    /\ pool_hist = NewPoolHist
    /\ w = <<>>
    /\ proc = <<>>
    /\ hist = <<>>

NextScrape ==
    \/ scrape
    \/ requests_get
    \/ extract
    \/ except_ReadTimeout
    \/ except_ConnectionError
    \/ except_generic

SpecScrape == InitScrape /\ [][NextScrape]_vars

\* ------------------------------------------------------------------ claims
N == Len(wrapper_tuples)

PoolFinished == ppc \in {"returned", "raised"}

\* The (return_value, error) pairs execute() can leave for a wrapper tuple,
\* as a function of that tuple alone.
Outcomes(t) ==
    LET adopted == IF Truthy(t.default_return) THEN t.default_return ELSE None
        finished == CASE t.handle.kind = "return" -> {<<t.handle.value, None>>}
                      [] t.handle.kind = "raise" -> {<<None, "WorkError">>}
                      [] OTHER -> {}
    IN  IF Truthy(t.timeout) THEN finished \cup {<<adopted, None>>} ELSE finished

\* The work of wrapper i raised, and did so before the limit of the call
\* (if any) had passed.
RaisedInTime(i) == proc[i].work = "raised" /\ ~proc[i].late

\* C1: for every list of N >= 0 wrapper tuples and every pool size, once
\* Pool.execute() has finished, return_values and errors are sequences of
\* length exactly N.
C1_LengthsAreN ==
    PoolFinished =>
        /\ ~return_values.none /\ Len(return_values.items) = N
        /\ ~errors.none /\ Len(errors.items) = N

\* C2: after Pool.execute(), return_values[i] and errors[i] are what the
\* wrapper of the i-th submitted tuple ended with, and that is an outcome of
\* the i-th tuple, whatever the order in which the tasks completed.
C2_SubmissionOrder ==
    ppc = "returned" =>
        /\ ~return_values.none /\ ~errors.none
        /\ \A i \in Tasks :
            /\ return_values.items[i] = w[i].return_value
            /\ errors.items[i] = w[i].error
            /\ <<return_values.items[i], errors.items[i]>> \in Outcomes(wrapper_tuples[i])

\* A batch returned whose second task completed before its first, with
\* different results.
C2_Witness ==
    /\ ppc = "returned"
    /\ N >= 2
    /\ completed[1] > completed[2]
    /\ return_values.items[completed[1]] # return_values.items[completed[2]]

C5_FallbackAdopted ==
    \A i \in Tasks :
        (w[i].pc = "returned" /\ hist[i].calls = 1 /\ hist[i].timedOut
            /\ proc[i].work = "killed" /\ w[i].default_return # None) =>
            /\ w[i].return_value = w[i].default_return
            /\ w[i].pool = "TERMINATE"
            /\ proc[i].workers = 0
            /\ hist[i].joins >= 1

\* C6: the wait of execute() is unbounded only when no timeout was supplied:
\* with any timeout supplied (0 included) execute() never enters the
\* unlimited polling loop of lines 171-172.
C6_BoundedWhenTimeoutSupplied ==
    \A i \in Tasks : w[i].timeout # None => w[i].pc # "L171"

\* C7: after execute() returns, whatever the outcome, done is true, it was
\* set exactly once during that call, the pool was joined and no worker of
\* the wrapper is alive.
C7_DoneOnceAndJoined ==
    \A i \in Tasks :
        w[i].pc = "returned" =>
            /\ w[i].done
            /\ hist[i].doneSets = 1
            /\ hist[i].joins >= 1
            /\ w[i].pool # "RUN"
            /\ proc[i].workers = 0

\* execute() returned after a timeout that killed the running work.
C7_Witness ==
    \E i \in Tasks :
        /\ w[i].pc = "returned"
        /\ hist[i].timedOut
        /\ proc[i].work = "killed"
        /\ w[i].done

\* C8: in every reachable state of a wrapper, also after execute() was
\* called more than once, return_value and error are never both present.
C8_NeverBoth ==
    \A i \in Tasks : ~(w[i].return_value # None /\ w[i].error # None)

C10_DefaultOnError ==
    \A i \in Tasks :
        (w[i].pc = "returned" /\ hist[i].calls = 1 /\ RaisedInTime(i)
            /\ Truthy(w[i].default_return)) =>
            w[i].return_value = w[i].default_return

\* ----------------------------------------------------- claims on scrape()
\* The number of entries of the log of the call in progress that are in S.
Count(S) == Cardinality({k \in DOMAIN scraper.log : scraper.log[k] \in S})

Returned == scraper.pc = "returned"

AllNone(row) == \A k \in DOMAIN row : row[k] = None

\* C11: every list scrape() returns has exactly one entry per configured
\* pattern, whether the page was read and matched, extraction failed, or the
\* retries were used up.
C11_OneEntryPerPattern ==
    Returned => /\ ~scraper.result.none
                /\ Len(scraper.result.items) = Len(scraper.pattern_list)

\* Two patterns, two generic failures, and the retries used up.
C11_Witness ==
    /\ Returned
    /\ Len(scraper.pattern_list) = 2
    /\ Count({"G"}) = 2
    /\ scraper.retry_count = scraper.max_retries
    /\ scraper.result = ListOf(<<None, None>>)

\* C12: scrape() always returns a value and never raises, whatever the
\* configuration and however long the sequence of fetch outcomes.
C12_NeverRaises == scraper.pc # "raised"

\* C13: a read timeout or connection error never changes retry_count: at
\* every point of a call it is the number of generic failures the call has
\* handled so far (a failure just raised is counted on entry to its handler).
C13_CounterIsGenericFailures ==
    scraper.retry_count =
        Count({"G", "R"}) - (IF scraper.pc = "L158" THEN 1 ELSE 0)

\* A read timeout, a connection error and a generic failure in one call.
C13_Witness ==
    /\ Count({"T"}) >= 1
    /\ Count({"C"}) >= 1
    /\ Count({"G"}) = 1
    /\ scraper.retry_count = 1
    /\ scraper.pc = "L133"

\* Every GET of the call in progress failed with a generic error (the last
\* of them possibly because the call could not be made at the stack limit).
OnlyGenericFailures ==
    /\ Count({"G"}) >= 1
    /\ Count({"ok", "T", "C"}) = 0

\* C14: against a source whose every attempt fails with a generic error,
\* scrape() retries until retry_count reaches max_retries and then returns
\* one None per pattern.
C14_ExhaustedReturnsNulls ==
    (scraper.pc \in {"returned", "raised"} /\ OnlyGenericFailures)
        => /\ Returned
           /\ scraper.result = ListOf(NoneRow(Len(scraper.pattern_list)))
           /\ scraper.retry_count >= scraper.max_retries

\* C15: max_retries is the number of attempts allowed: the GET attempts of a
\* call that end in a generic failure never outnumber max_retries, for every
\* max_retries >= 0.
C15_AttemptsWithinMaxRetries == Count({"G"}) <= scraper.max_retries

\* C16: in first-match mode the result is never a mix: if the search fails
\* for any one pattern, every entry of the result is None.
C16_AllOrNothing ==
    (Returned /\ ~scraper.findall)
        => /\ AllNone(scraper.result.items)
              \/ \A k \in DOMAIN scraper.result.items : scraper.result.items[k] # None
           /\ (\E k \in DOMAIN scraper.pattern_list :
                    scraper.pattern_list[k] \notin scraper.contents)
                => AllNone(scraper.result.items)

\* The page matches the first of two patterns and not the second.
C16_Witness ==
    /\ Returned
    /\ ~scraper.findall
    /\ scraper.pattern_list = <<"a", "b">>
    /\ scraper.contents = {"a"}
    /\ scraper.log[Len(scraper.log)] = "ok"
    /\ scraper.result = ListOf(<<None, None>>)

\* The worker of the batch pool that runs wrapper tuple i: the worker that
\* took the chunk of i, which exits after that one task (maxtasksperchild=1).
BatchWorker(i) == Chunk(i)

Started(i) == w[i].pc \notin {"unborn", "failed"}

\* C21: for every batch size and pool size, no worker of the batch pool
\* executes more than one wrapper tuple in its lifetime.
C21_OneUnitPerWorker ==
    \A i, j \in Tasks :
        (Started(i) /\ Started(j) /\ BatchWorker(i) = BatchWorker(j)) => i = j

Executing == {i \in Tasks : proc[i].work = "running"}

\* C27: at every moment of Pool.execute(), at most pool_size wrapper tuples
\* of the batch have their work executing.
C27_AtMostPoolSizeExecuting ==
    /\ Cardinality(Executing) <= pool_size
    /\ Cardinality(InFlight) <= pool_size

\* The pool of one worker is full: the work of the first task is executing
\* and the second task waits for the worker.
C27_Witness ==
    /\ ppc = "L338"
    /\ pool_size = 1
    /\ N = 2
    /\ Executing = {1}
    /\ w[2].pc = "unborn"

\* C22: a task of the batch whose own work terminates is started and
\* completes, whatever its siblings do (hang, time out, raise), for every
\* pool size and every submission order.
C22_SiblingsStartAndComplete ==
    \A j \in 1..MaxTasks :
        (ppc = "L338" /\ j <= N /\ wrapper_tuples[j].handle.kind # "hang")
            ~> (j <= N /\ w[j].pc = "returned" /\ w[j].done)

\* C23: with a limit, the return value of the work is captured only if the
\* work completed before the limit passed: a completion after the limit is
\* never adopted as return_value.
C23_LateCompletionNotAdopted ==
    \A i \in Tasks :
        (proc[i].limit /\ w[i].pc \in {"L163", "returned"} /\ hist[i].calls = 1
            /\ ~hist[i].timedOut /\ w[i].async_result = "value") =>
            ~proc[i].late

\* C28: a first execute() with a limit and default return value F ends in the
\* same observable state <<return_value, error, done>> whether the limit
\* passed or the work returned F in time; the run whose work returns F fixes
\* that state as <<F, None, TRUE>>.
C28_TimeoutLooksLikeFallbackReturn ==
    \A i \in Tasks :
        (proc[i].limit /\ w[i].pc = "returned" /\ hist[i].calls = 1
            /\ \/ hist[i].timedOut
               \/ /\ proc[i].work = "returned" /\ ~proc[i].late
                  /\ w[i].handle.value = w[i].default_return) =>
            <<w[i].return_value, w[i].error, w[i].done>> = <<w[i].default_return, None, TRUE>>

\* C29: on every path through execute() (success, timeout, failure of the
\* work, failure to submit) join() is reached only on a pool that was closed
\* or terminated in that call or before, and it is invoked exactly once per
\* call: not yet when a join line is reached, once when execute() returns.
C29_StoppedBeforeSingleJoin ==
    \A i \in Tasks :
        /\ w[i].pc \in {"L163", "L175", "L181"} =>
                w[i].pool \in {"CLOSE", "TERMINATE"} /\ hist[i].joins = 0
        /\ w[i].pc = "returned" =>
                w[i].pool \in {"CLOSE", "TERMINATE"} /\ hist[i].joins = 1

\* A second execute() failed to submit to the closed pool, and returned after
\* terminating and joining it once.
C29_Witness ==
    \E i \in Tasks :
        /\ w[i].pc = "returned"
        /\ hist[i].calls = 2
        /\ w[i].error = "ValueError('Pool not running')"
        /\ w[i].pool = "TERMINATE"
        /\ hist[i].joins = 1

\* C24: a failure raised during extraction, after a page was fetched, ends
\* the call at once: the step from the fetched page leads to the return,
\* with no further GET, no wait and the retry counter unchanged.
C24_ExtractionEndsCall ==
    [][ scraper.pc = "L135" =>
            /\ scraper'.pc = "returned"
            /\ scraper'.log = scraper.log
            /\ scraper'.retry_count = scraper.retry_count ]_vars

\* After one generic failure and its retry, the page is fetched, the second
\* pattern does not match, and the call has returned.
C24_Witness ==
    /\ Returned
    /\ ~scraper.findall
    /\ scraper.pattern_list = <<"a", "b">>
    /\ scraper.contents = {"a"}
    /\ scraper.result = ListOf(<<None, None>>)
    /\ scraper.log = <<"G", "sleep", "ok">>
    /\ scraper.retry_count = 1

\* C25: transient failures are retried without limit: a call whose source
\* produced no generic failure, only read timeouts and connection errors,
\* ends only by returning after the page was fetched.
C25_TransientRetriedWithoutBound ==
    (scraper.pc \in {"returned", "raised"} /\ Count({"G"}) = 0)
        => Returned /\ Count({"ok"}) = 1

GetOutcomes == {"ok", "T", "C", "G", "R"}
Failures == {"T", "C", "G", "R"}

\* C26: in a call every GET but the first comes right after exactly one
\* wait, which comes right after a failed GET; and the call does not return
\* right after a wait (none after the page was fetched, none after the
\* failure that used up the retries).
C26_OneWaitBeforeEachRefetch ==
    LET log == scraper.log
    IN  /\ \A k \in DOMAIN log :
               log[k] \in GetOutcomes =>
                   \/ k = 1
                   \/ k >= 3 /\ log[k - 1] = "sleep" /\ log[k - 2] \in Failures
        /\ \A k \in DOMAIN log :
               log[k] = "sleep" => k > 1 /\ log[k - 1] \in Failures
        /\ Returned => log[Len(log)] # "sleep"

\* A read timeout, then two generic failures that use up max_retries = 2.
C26_Witness ==
    /\ Returned
    /\ scraper.max_retries = 2
    /\ scraper.log = <<"T", "sleep", "G", "sleep", "G">>

\* The configuration fields of the scraper.
ScrapeConfig(s) == <<s.pattern_list, s.findall, s.groups, s.max_retries>>

\* C30: every scrape() call starts with retry_count = 0, whatever an earlier
\* call on the same object consumed, and no step of a call changes a
\* configuration field.
C30_FreshCounterSameConfig ==
    [][ /\ ScrapeConfig(scraper') = ScrapeConfig(scraper)
        /\ (scraper.pc \in {"idle", "returned", "raised"} /\ scraper'.pc = "L133")
               => scraper'.retry_count = 0 ]_vars

\* The second call on a scraper used both of its max_retries = 2 attempts.
C30_Witness ==
    /\ scraper.calls = 2
    /\ Returned
    /\ scraper.max_retries = 2
    /\ scraper.log = <<"G", "sleep", "G">>
    /\ scraper.retry_count = 2

\* ------------------------------------------------ claims on pool lifecycle
\* C17: every worker a pool of the package creates is non-daemonic in every
\* state: its daemon attribute reads False, and the flag that forbids a
\* process to start children is never set, whatever is assigned to it.
C17_NonDaemonic ==
    /\ ~DaemonGet(workers) /\ ~workers.daemon
    /\ \A i \in Tasks : ~DaemonGet(proc[i]) /\ ~proc[i].daemon

\* Inside a batch worker, the wrapper's pool has replaced the worker that
\* ran the task: three generations of workers were assigned daemon = True.
C17_Witness ==
    /\ ppc = "L338"
    /\ \E i \in Tasks : /\ proc[i].work = "returned"
                         /\ proc[i].workers = 1
                         /\ proc[i].served = 0
                         /\ ~proc[i].daemon

WellFormed == \A i \in DOMAIN wrapper_tuples : wrapper_tuples[i].args # None

BatchReturned ==
    /\ pool_hist.returns = 1
    /\ \A i \in Tasks : map_value[i].set /\ ~map_value[i].failed

\* C18: a task running in a worker of the batch pool opens its own pool,
\* submits its work and waits for it, and nothing deadlocks: for every pool
\* size and every batch of well-formed tasks whose work ends (by itself or
\* by its timeout), every task completes and execute() returns.
C18_NestedPoolsComplete ==
    (ppc = "new" /\ pool_hist.calls = 0 /\ N >= 1 /\ WellFormed) ~> BatchReturned

\* Two tasks queued for the one worker of the batch pool, one of them ended
\* by its timeout, and the batch returned.
C18_Witness ==
    /\ BatchReturned
    /\ N = 2
    /\ pool_size = 1
    /\ \E i \in Tasks : hist[i].timedOut

\* C19: on every exit path of Pool.execute(), the one where map raises
\* included, the batch pool has been closed and joined exactly once and none
\* of its workers is left alive.
C19_ClosedAndJoinedOnEveryExit ==
    PoolFinished => /\ pool_hist.closes = 1
                    /\ pool_hist.joins = 1
                    /\ batch_pool # "RUN"
                    /\ workers.live = 0

Rank(state) == CASE state = "RUN" -> 0
                 [] state = "CLOSE" -> 1
                 [] state = "TERMINATE" -> 2

\* Wrapper i is the same FunctionWrapper object before and after the step.
SameWrapper(i) ==
    /\ w[i].pc \notin {"unborn", "failed"}
    /\ w'[i].pc \notin {"unborn", "failed"}

\* C20: a pool only moves forward through running, closed, terminated, and
\* serves one batch: once execute() has returned on a Pool or on a
\* FunctionWrapper, no later call on that object starts any work on its pool.
C20_OneBatchPerPool ==
    [][ /\ Rank(batch_pool') >= Rank(batch_pool)
        /\ pool_hist.returns >= 1 =>
               \A i \in Tasks : ~(w[i].pc = "unborn" /\ w'[i].pc # "unborn")
        /\ \A i \in Tasks : SameWrapper(i) =>
               /\ Rank(w'[i].pool) >= Rank(w[i].pool)
               /\ (hist[i].calls >= 2 \/ w[i].pc = "returned") =>
                      ~(proc[i].work # "running" /\ proc'[i].work = "running")
      ]_vars

\* execute() was called again on a Pool that had returned a batch of two.
C20_Witness ==
    /\ pool_hist.calls = 2
    /\ pool_hist.returns = 1
    /\ ppc = "raised"
    /\ N = 2
====
